---- MODULE Spec2Model ----
(***************************************************************************)
(* Flask-DjangoQuery (src/flask_djangoquery.py): the Django-style lookup   *)
(* translator of DjangoQuery (filter_by, exclude_by, order_by,             *)
(* select_related) and the loaded-attribute serialization view             *)
(* (get_entity_loaded_propnames, __json__, DynamicJSONEncoder.default).    *)
(*                                                                         *)
(* Python strings are sequences of lexical atoms: an atom is a run of      *)
(* characters holding no underscore, a single "_", a single ".", or a      *)
(* leading sign "+" / "-".  'blog__name' is <<"blog","_","_","name">>.     *)
(***************************************************************************)
EXTENDS Integers, Sequences, FiniteSets, TLC

VARIABLES self, pc, last, ins, cls_exclude, out

vars == <<self, pc, last, ins, cls_exclude, out>>

(* ------------------------------------------------------------------ *)
(* Bounds of the model                                                  *)
(* ------------------------------------------------------------------ *)
\* largest number of keyword lookups in one filter_by / exclude_by call
MaxEntries == 2
\* largest number of terms in one order_by call
MaxTerms == 2
\* largest number of paths in one select_related call
MaxPaths == 2

(* ------------------------------------------------------------------ *)
(* Python strings                                                       *)
(* ------------------------------------------------------------------ *)
RECURSIVE SplitFrom(_, _, _, _)
SplitFrom(s, i, cur, acc) ==
    IF i > Len(s) THEN Append(acc, cur)
    ELSE IF s[i] = "_" /\ i + 1 <= Len(s) /\ s[i + 1] = "_"
         THEN SplitFrom(s, i + 2, <<>>, Append(acc, cur))
         ELSE SplitFrom(s, i + 1, Append(cur, s[i]), acc)

\* arg.split('__'): cut at each non-overlapping '__', scanning from the left
Split(s) == SplitFrom(s, 1, <<>>, <<>>)

RECURSIVE ReplaceFrom(_, _, _)
ReplaceFrom(s, i, acc) ==
    IF i > Len(s) THEN acc
    ELSE IF s[i] = "_" /\ i + 1 <= Len(s) /\ s[i + 1] = "_"
         THEN ReplaceFrom(s, i + 2, Append(acc, "."))
         ELSE ReplaceFrom(s, i + 1, Append(acc, s[i]))

\* column.replace('__', '.')
ReplaceDunder(s) == ReplaceFrom(s, 1, <<>>)

\* '.' in column
HasDot(s) == \E i \in 1..Len(s) : s[i] = "."

RECURSIVE EscapePct(_)
\* x.replace('%', '%%')
EscapePct(s) ==
    IF s = <<>> THEN <<>>
    ELSE (IF Head(s) = "%" THEN <<"%", "%">> ELSE <<Head(s)>>) \o EscapePct(Tail(s))

(* ------------------------------------------------------------------ *)
(* Mapped entities (the models of the module's example queries)         *)
(* ------------------------------------------------------------------ *)
Entities == {"Post", "Blog"}

ColumnNames(e) ==
    IF e = "Post" THEN {<<"id">>, <<"pub", "_", "date">>}
    ELSE IF e = "Blog" THEN {<<"name">>, <<"title">>}
    ELSE {}

RelationshipTarget(e, k) ==
    IF e = "Post" /\ k = <<"blog">> THEN "Blog"
    ELSE IF e = "Blog" /\ k = <<"posts">> THEN "Post"
    ELSE ""

RelationshipNames(e) ==
    IF e = "Post" THEN {<<"blog">>}
    ELSE IF e = "Blog" THEN {<<"posts">>}
    ELSE {}

\* a class attribute: .impl.uses_objects tells a relationship from a column
Descriptor(e, k) ==
    [entity |-> e, key |-> k,
     uses_objects |-> k \in RelationshipNames(e),
     target |-> RelationshipTarget(e, k)]

\* the Python None bound to `column`
NoColumn == [entity |-> "", key |-> <<>>, uses_objects |-> FALSE, target |-> ""]

\* hasattr(entity, key) inside _entity_descriptor
HasProperty(e, k) == k \in ColumnNames(e) \cup RelationshipNames(e)

\* _entity_descriptor(entity, key); InvalidRequestError when HasProperty fails
EntityDescriptor(e, k) == IF HasProperty(e, k) THEN Descriptor(e, k) ELSE NoColumn

(* ------------------------------------------------------------------ *)
(* Python values given as lookup values                                 *)
(* ------------------------------------------------------------------ *)
PyInt(a) == [t |-> "int", items |-> <<a>>]
PyBool(a) == [t |-> "bool", items |-> <<a>>]
PyStr(chars) == [t |-> "str", items |-> chars]
PyList(atoms) == [t |-> "list", items |-> atoms]
PyNone == [t |-> "none", items |-> <<>>]

\* bool(x) of a scalar value
Truthy(x) ==
    CASE x.t = "int" -> x.items # <<"0">>
      [] x.t = "bool" -> x.items = <<"True">>
      [] x.t = "str" -> x.items # <<>>
      [] x.t = "list" -> x.items # <<>>
      [] OTHER -> FALSE

\* sqlalchemy.util.to_list(x): None stays None, a string or a non-iterable
\* becomes [x], a list is returned as it is (its elements are ints here)
ToList(x) ==
    CASE x.t = "none" -> <<>>
      [] x.t = "list" -> [i \in 1..Len(x.items) |-> PyInt(x.items[i])]
      [] OTHER -> <<x>>

\* f(column, *to_list(value)) with to_list(value) None: TypeError
StarFails(x) == x.t = "none"

(* ------------------------------------------------------------------ *)
(* The query object (BaseQuery): every method returns a new query       *)
(* ------------------------------------------------------------------ *)
FreshQuery(e) ==
    [base |-> e, joinpoint |-> e, joins |-> <<>>, criteria |-> <<>>,
     order |-> <<>>, options |-> <<>>]

\* q._joinpoint_zero(): the entity lookups are resolved against
JoinpointZero(q) == q.joinpoint

\* q.join(column): records the join and moves the join point to its target
Join(q, c) == [q EXCEPT !.joins = Append(@, c), !.joinpoint = c.target]

\* q.filter(criterion): the criterion is ANDed to the query's criteria
Filter(q, e) == [q EXCEPT !.criteria = Append(@, e)]

\* q.reset_joinpoint(): the join point goes back to the base entity
ResetJoinpoint(q) == [q EXCEPT !.joinpoint = q.base]

\* super().order_by(*args): the ordering clause is set
SuperOrderBy(q, args) == [q EXCEPT !.order = @ \o args]

\* q.options(directive)
Options(q, o) == [q EXCEPT !.options = Append(@, o)]

(* ------------------------------------------------------------------ *)
(* What is handed to q.filter(): an SQL expression, or the Python bool  *)
(* (and its ~, an int) that the isnull lambda evaluates to              *)
(* ------------------------------------------------------------------ *)
Sql(f, c, args) == [kind |-> "sql", op |-> f, col |-> c, args |-> args, neg |-> FALSE]
PyBoolObject(b) ==
    [kind |-> "pybool", op |-> IF b THEN "True" ELSE "False", col |-> NoColumn,
     args |-> <<>>, neg |-> FALSE]
PyIntObject(a) ==
    [kind |-> "pyint", op |-> a, col |-> NoColumn, args |-> <<>>, neg |-> FALSE]

\* ~expr: NOT of an SQL expression; ~True is -2 and ~False is -1 in Python
Invert(e) ==
    CASE e.kind = "sql" -> [e EXCEPT !.neg = ~@]
      [] e.kind = "pybool" -> PyIntObject(IF e.op = "True" THEN "-2" ELSE "-1")
      [] OTHER -> e

\* negate_if = lambda expr: expr if not negate else ~expr
NegateIf(negate, e) == IF ~negate THEN e ELSE Invert(e)

\* DjangoQuery._underscore_operators: the function each suffix is mapped to
UnderscoreOperators ==
    [gt |-> "gt", lt |-> "lt", gte |-> "ge", lte |-> "le",
     contains |-> "contains_op", in |-> "in_op", exact |-> "eq",
     iexact |-> "ilike_op", startswith |-> "startswith_op",
     istartswith |-> "lambda_istartswith", iendswith |-> "lambda_iendswith",
     endswith |-> "endswith_op", isnull |-> "lambda_isnull",
     range |-> "between_op", year |-> "lambda_year", month |-> "lambda_month",
     day |-> "lambda_day"]

\* token in self._underscore_operators
IsOperator(token) == Len(token) = 1 /\ token[1] \in DOMAIN UnderscoreOperators

\* the numbers of positional values each operator function accepts after the
\* column: the lambdas and the binary operators take one, the pattern
\* operators an optional escape, between_op two bounds and an optional flag
Accepts(f) ==
    CASE f \in {"contains_op", "ilike_op", "startswith_op", "endswith_op"} -> {1, 2}
      [] f = "between_op" -> {2, 3}
      [] OTHER -> {1}

\* lambda c, x: x and c is not None or c is None
IsNullLambda(c, x) == PyBoolObject((Truthy(x) /\ c # NoColumn) \/ c = NoColumn)

\* lambda c, x: c.ilike(x.replace('%', '%%') + '%')
IStartsWithLambda(c, x) == Sql("ilike", c, <<PyStr(EscapePct(x.items) \o <<"%">>)>>)

\* lambda c, x: c.ilike('%' + x.replace('%', '%%'))
IEndsWithLambda(c, x) == Sql("ilike", c, <<PyStr(<<"%">> \o EscapePct(x.items))>>)

\* lambda c, x: extract(part, c) == x
ExtractLambda(part, c, x) ==
    Sql(CASE part = "year" -> "extract_year_eq"
          [] part = "month" -> "extract_month_eq"
          [] OTHER -> "extract_day_eq", c, <<x>>)

CallOk(e) == [err |-> "", expr |-> e]
CallError(kind) == [err |-> kind, expr |-> PyIntObject("0")]

\* op(column, *args) for op = self._underscore_operators[token]
ApplyOperator(f, c, args) ==
    IF Len(args) \notin Accepts(f) THEN CallError("TypeError")
    ELSE CASE f = "lambda_isnull" -> CallOk(IsNullLambda(c, args[1]))
           [] f = "lambda_istartswith" ->
                IF args[1].t # "str" THEN CallError("AttributeError")
                ELSE CallOk(IStartsWithLambda(c, args[1]))
           [] f = "lambda_iendswith" ->
                IF args[1].t # "str" THEN CallError("AttributeError")
                ELSE CallOk(IEndsWithLambda(c, args[1]))
           [] f = "lambda_year" -> CallOk(ExtractLambda("year", c, args[1]))
           [] f = "lambda_month" -> CallOk(ExtractLambda("month", c, args[1]))
           [] f = "lambda_day" -> CallOk(ExtractLambda("day", c, args[1]))
           [] OTHER -> CallOk(Sql(f, c, args))

\* op(column, *to_list(value))
OperatorCall(f, c, value) ==
    IF StarFails(value) THEN CallError("TypeError")
    ELSE ApplyOperator(f, c, ToList(value))

(* ------------------------------------------------------------------ *)
(* DjangoQuery._filter_or_exclude                                       *)
(* ------------------------------------------------------------------ *)
\* the locals of the loop on entry: q = self, column = None, nothing raised
WalkStart(q) == [q |-> q, column |-> NoColumn, err |-> ""]

\* one iteration of `for token in arg.split('__')`
FilterToken(st, token, value, negate) ==
    IF st.err # "" THEN st
    ELSE IF st.column = NoColumn THEN
        LET e == JoinpointZero(st.q)
        IN IF ~HasProperty(e, token)
           THEN [st EXCEPT !.err = "InvalidRequestError"]
           ELSE LET c == EntityDescriptor(e, token)
                IN IF c.uses_objects
                   THEN [st EXCEPT !.q = Join(@, c), !.column = NoColumn]
                   ELSE [st EXCEPT !.column = c]
    ELSE IF IsOperator(token) THEN
        LET r == OperatorCall(UnderscoreOperators[token[1]], st.column, value)
        IN IF r.err # "" THEN [st EXCEPT !.err = r.err]
           ELSE [st EXCEPT !.q = Filter(@, NegateIf(negate, r.expr)),
                           !.column = NoColumn]
    ELSE [st EXCEPT !.err = "ValueError"]

RECURSIVE FilterTokens(_, _, _, _)
FilterTokens(st, tokens, value, negate) ==
    IF tokens = <<>> THEN st
    ELSE FilterTokens(FilterToken(st, Head(tokens), value, negate),
                      Tail(tokens), value, negate)

\* EntryEnd without its q.reset_joinpoint()
EntryEndNoReset(st, value, negate) ==
    IF st.err # "" THEN st
    ELSE IF st.column # NoColumn
         THEN [st EXCEPT !.q = Filter(@, NegateIf(negate, Sql("eq", st.column, <<value>>))),
                         !.column = NoColumn]
         ELSE st

\* after the tokens of one entry: the default equality, then reset_joinpoint
EntryEnd(st, value, negate) ==
    IF st.err # "" THEN st
    ELSE LET filtered ==
                 IF st.column # NoColumn
                 THEN Filter(st.q, NegateIf(negate, Sql("eq", st.column, <<value>>)))
                 ELSE st.q
         IN [st EXCEPT !.q = ResetJoinpoint(filtered), !.column = NoColumn]

\* one iteration of `for arg, value in kwargs.items()`
FilterEntry(st, arg, value, negate) ==
    EntryEnd(FilterTokens(st, Split(arg), value, negate), value, negate)

RECURSIVE FilterEntries(_, _, _)
FilterEntries(st, kwargs, negate) ==
    IF kwargs = <<>> THEN st
    ELSE FilterEntries(FilterEntry(st, Head(kwargs).key, Head(kwargs).value, negate),
                       Tail(kwargs), negate)

\* the value of a call: the query returned, or the exception raised
Returned(q) == [err |-> "", q |-> q]
Raised(kind) == [err |-> kind, q |-> FreshQuery("")]

FilterOrExclude(q, negate, kwargs) ==
    LET st == FilterEntries(WalkStart(q), kwargs, negate)
    IN IF st.err # "" THEN Raised(st.err) ELSE Returned(st.q)

FilterBy(q, kwargs) == FilterOrExclude(q, FALSE, kwargs)
ExcludeBy(q, kwargs) == FilterOrExclude(q, TRUE, kwargs)

(* ------------------------------------------------------------------ *)
(* DjangoQuery.order_by                                                 *)
(* ------------------------------------------------------------------ *)
\* an order_by argument: a Python str, or an already built ordering expression
StrTerm(chars) == [isstr |-> TRUE, chars |-> chars, expr |-> NoColumn]
ExprTerm(c) == [isstr |-> FALSE, chars |-> <<>>, expr |-> c]

\* what args[idx] holds when super().order_by(*args) is called
OrderKey(c, desc) == [col |-> c, desc |-> desc]

\* one iteration of `for token in arg.split('__')` of order_by
OrderToken(st, token) ==
    IF st.err # "" THEN st
    ELSE LET e == JoinpointZero(st.q)
         IN IF ~HasProperty(e, token)
            THEN [st EXCEPT !.err = "InvalidRequestError"]
            ELSE LET c == EntityDescriptor(e, token)
                 IN IF c.uses_objects
                    THEN [st EXCEPT !.q = Join(@, c),
                                    !.joins_needed = Append(@, c),
                                    !.column = NoColumn]
                    ELSE [st EXCEPT !.column = c]

RECURSIVE OrderTokens(_, _)
OrderTokens(st, tokens) ==
    IF tokens = <<>> THEN st
    ELSE OrderTokens(OrderToken(st, Head(tokens)), Tail(tokens))

\* one iteration of `for idx, arg in enumerate(args)`: st holds self, the
\* args rewritten so far, joins_needed and the error raised (if any)
OrderTerm(st, term) ==
    IF st.err # "" THEN st
    ELSE IF ~term.isstr THEN [st EXCEPT !.args = Append(@, OrderKey(term.expr, FALSE))]
    ELSE IF term.chars = <<>> THEN [st EXCEPT !.err = "IndexError"]
    ELSE LET signed == term.chars[1] \in {"+", "-"}
             desc == term.chars[1] = "-"
             arg == IF signed THEN Tail(term.chars) ELSE term.chars
             w == OrderTokens([q |-> st.self, column |-> NoColumn, err |-> "",
                               joins_needed |-> st.joins_needed], Split(arg))
         IN IF w.err # "" THEN [st EXCEPT !.err = w.err]
            ELSE IF w.column = NoColumn THEN [st EXCEPT !.err = "ValueError"]
            ELSE [st EXCEPT !.args = Append(@, OrderKey(w.column, desc)),
                            !.joins_needed = w.joins_needed]

RECURSIVE OrderTerms(_, _)
OrderTerms(st, terms) ==
    IF terms = <<>> THEN st
    ELSE OrderTerms(OrderTerm(st, Head(terms)), Tail(terms))

RECURSIVE JoinAll(_, _)
\* for join in joins_needed: q = q.join(join)
JoinAll(q, joins) ==
    IF joins = <<>> THEN q ELSE JoinAll(Join(q, Head(joins)), Tail(joins))

\* the joins order_by hands to the query after the ordering clause is set
JoinsToApply(joins_needed) == joins_needed

OrderBy(q, terms) ==
    LET st == OrderTerms([self |-> q, args |-> <<>>, joins_needed |-> <<>>, err |-> ""],
                         terms)
    IN IF st.err # "" THEN Raised(st.err)
       ELSE Returned(JoinAll(SuperOrderBy(q, st.args), JoinsToApply(st.joins_needed)))

(* ------------------------------------------------------------------ *)
(* DjangoQuery.select_related                                           *)
(* ------------------------------------------------------------------ *)
\* **options: depth is "absent" when the keyword is not given; extra holds
\* the other keywords
SelectOptions(depth, extra) == [depth |-> depth, extra |-> extra]

\* options.pop('depth', None)
PopDepth(options) == IF options.depth = "absent" THEN "None" ELSE options.depth

\* for idx, column in enumerate(columns): columns[idx] = column.replace('__', '.')
RewriteColumns(columns) == [i \in 1..Len(columns) |-> ReplaceDunder(columns[i])]

\* NeedAll without the `if '.' in column` test
NeedAllDepthOnly(depth, columns) == depth = "None"

\* need_all after the loop
NeedAll(depth, columns) ==
    depth = "None" \/ \E i \in 1..Len(columns) : HasDot(ReplaceDunder(columns[i]))

\* func(*columns) for func = need_all and joinedload_all or joinedload
LoadDirective(need_all, columns) ==
    [func |-> IF need_all THEN "joinedload_all" ELSE "joinedload", columns |-> columns]

SelectRelated(q, columns, options) ==
    LET depth == PopDepth(options)
    IN IF options.extra # <<>> THEN Raised("TypeError: Unexpected argument")
       ELSE IF depth \notin {"None", "1"} THEN Raised("TypeError: Depth can only be 1 or None")
       ELSE Returned(Options(q, LoadDirective(NeedAll(depth, columns),
                                              RewriteColumns(columns))))

(* ------------------------------------------------------------------ *)
(* Loaded attributes and the JSON view                                  *)
(* ------------------------------------------------------------------ *)
\* the mapped class of the serialized instance
InstanceClass == "Post"

\* get_entity_propnames(entity): column_attrs keys + relationships keys
GetEntityPropnames(e) == ColumnNames(e) \cup RelationshipNames(e)

\* get_entity_loaded_propnames without the `if not ins.transient` test
LoadedPropnamesAlwaysUnload(i) ==
    LET kept == GetEntityPropnames(InstanceClass) \ i.unloaded
    IN IF i.expired THEN kept \cup i.expired_attributes ELSE kept

\* get_entity_loaded_propnames(entity), i the instance's InstanceState
GetEntityLoadedPropnames(i) ==
    LET keynames == GetEntityPropnames(InstanceClass)
        kept == IF ~i.transient THEN keynames \ i.unloaded ELSE keynames
    IN IF i.expired THEN kept \cup i.expired_attributes ELSE kept

\* getattr(self, name)
Getattr(i, name) == i.dict[name]

\* __json__ without the `- exclude_columns`
JsonKeepingAll(i, exclude_columns) ==
    [name \in GetEntityLoadedPropnames(i) |-> Getattr(i, name)]

\* JSONSerializableBase.__json__(self, exclude_columns)
Json(i, exclude_columns) ==
    [name \in GetEntityLoadedPropnames(i) \ exclude_columns |-> Getattr(i, name)]

\* the exclude_columns DynamicJSONEncoder.default passes to o.__json__
EncoderExclude(c) == IF c.declared THEN c.names ELSE {}

\* DynamicJSONEncoder.default(o) for an o that has __json__
EncoderDefault(i, c) == Json(i, EncoderExclude(c))

(* ------------------------------------------------------------------ *)
(* Inputs                                                               *)
(* ------------------------------------------------------------------ *)
RECURSIVE JoinDunder(_)
\* '__'.join(tokens)
JoinDunder(tokens) ==
    IF Len(tokens) = 1 THEN tokens[1]
    ELSE tokens[1] \o <<"_", "_">> \o JoinDunder(Tail(tokens))

PubDate == <<"pub", "_", "date">>

OperatorKeys == {JoinDunder(<<<<"id">>, <<o>>>>) : o \in DOMAIN UnderscoreOperators}

PathKeys ==
    {JoinDunder(ts) : ts \in
        {<< <<"id">> >>, << PubDate >>, << <<"blog">> >>, << <<"bogus">> >>,
         << <<"name">> >>,
         << <<"blog">>, <<"name">> >>,
         << <<"blog">>, <<"name">>, <<"exact">> >>,
         << <<"blog">>, <<"posts">>, <<"id">> >>,
         << <<"blog">>, <<"bogus">> >>,
         << <<"id">>, <<"bogus">> >>,
         << <<"id">>, <<"exact">>, PubDate >>,
         << <<"id">>, <<"exact">>, <<"blog">> >>,
         << <<"id">>, <<"exact">>, <<"bogus">> >>,
         << <<"id">>, <<"in">>, <<"blog">>, <<"name">> >>}}

LookupKeys == OperatorKeys \cup PathKeys

LookupValues ==
    {PyInt("1"), PyBool("True"), PyBool("False"), PyStr(<<"e", "%">>),
     PyList(<<"1">>), PyList(<<"1", "2">>), PyNone}

\* the lookups of the calls that carry several entries
ChainKeys ==
    {JoinDunder(ts) : ts \in
        {<< <<"id">> >>, << <<"blog">> >>, << <<"name">> >>, << <<"bogus">> >>,
         << <<"blog">>, <<"name">>, <<"exact">> >>}}

ChainValues == {PyInt("1"), PyNone}

Entry(k, v) == [key |-> k, value |-> v]

\* **kwargs: a dict, so no key twice; in iteration order
DistinctKeys(kw) == \A i, j \in 1..Len(kw) : i # j => kw[i].key # kw[j].key

Kwargs ==
    {<<>>} \cup {<<Entry(k, v)>> : k \in LookupKeys, v \in LookupValues}
    \cup UNION {{kw \in [1..n -> {Entry(k, v) : k \in ChainKeys, v \in ChainValues}] :
                    DistinctKeys(kw)} : n \in 2..MaxEntries}

OrderArgs ==
    {StrTerm(<<>>), StrTerm(<<"id">>), StrTerm(<<"-", "id">>), StrTerm(<<"+", "id">>),
     StrTerm(<<"blog">>), StrTerm(<<"bogus">>),
     StrTerm(<<"-">> \o JoinDunder(<< <<"blog">>, <<"name">> >>)),
     StrTerm(JoinDunder(<< <<"blog">>, <<"name">> >>)),
     StrTerm(JoinDunder(<< <<"blog">>, <<"title">> >>)),
     StrTerm(JoinDunder(<< <<"blog">>, <<"posts">>, <<"id">> >>)),
     StrTerm(JoinDunder(<< <<"id">>, PubDate >>)),
     ExprTerm(Descriptor("Post", <<"id">>))}

OrderCalls == UNION {[1..n -> OrderArgs] : n \in 0..MaxTerms}

RelatedPaths ==
    {<<"blog">>, <<"pub", "_", "date">>, <<"blog", "_", "_", "posts">>,
     <<"blog", ".", "posts">>}

RelatedCalls == UNION {[1..n -> RelatedPaths] : n \in 0..MaxPaths}

RelatedOptions ==
    {SelectOptions(d, x) : d \in {"absent", "None", "1", "2"},
                           x \in {<<>>, <<"deep">>}}

\* the queries a call is made on: a new query of a mapped class, or one that
\* an earlier order_by or filter_by call returned
SelfQueries ==
    {FreshQuery(e) : e \in Entities}
    \cup {OrderBy(FreshQuery("Post"),
                  <<StrTerm(JoinDunder(<< <<"blog">>, <<"name">> >>))>>).q,
          FilterBy(FreshQuery("Post"),
                   <<Entry(JoinDunder(<< <<"blog">>, <<"name">>, <<"exact">> >>),
                           PyInt("1"))>>).q}

NoOptions == SelectOptions("absent", <<>>)
NoCall ==
    [op |-> "none", negate |-> FALSE, kwargs |-> <<>>, terms |-> <<>>,
     columns |-> <<>>, options |-> NoOptions, result |-> Raised("")]

\* instance states: transient or persisted, with any unloaded / expired keys
InstanceStates ==
    [transient : BOOLEAN, unloaded : SUBSET GetEntityPropnames(InstanceClass),
     expired : BOOLEAN, expired_attributes : SUBSET GetEntityPropnames(InstanceClass),
     dict : {[n \in GetEntityPropnames(InstanceClass) |-> n]}]

\* the class declares __exclude_columns__ or not
ClassExcludes ==
    {[declared |-> FALSE, names |-> {}]}
    \cup {[declared |-> TRUE, names |-> x] : x \in SUBSET GetEntityPropnames(InstanceClass)}

\* the exclusion sets a caller passes to __json__
CallExcludes == SUBSET (GetEntityPropnames(InstanceClass) \cup {<<"bogus">>})

NoOut == [op |-> "none", exclude |-> {}, keys |-> {}, read |-> {}, mapping |-> <<>>]

(* ------------------------------------------------------------------ *)
(* The calls                                                            *)
(* ------------------------------------------------------------------ *)
QueryIdle == UNCHANGED <<ins, cls_exclude, out>>

CallFilterBy ==
    /\ pc = "call"
    /\ \E kw \in Kwargs :
          last' = [NoCall EXCEPT !.op = "filter_by", !.kwargs = kw,
                                 !.result = FilterBy(self, kw)]
    /\ pc' = "returned"
    /\ UNCHANGED self /\ QueryIdle

CallExcludeBy ==
    /\ pc = "call"
    /\ \E kw \in Kwargs :
          last' = [NoCall EXCEPT !.op = "exclude_by", !.negate = TRUE, !.kwargs = kw,
                                 !.result = ExcludeBy(self, kw)]
    /\ pc' = "returned"
    /\ UNCHANGED self /\ QueryIdle

CallOrderBy ==
    /\ pc = "call"
    /\ \E ts \in OrderCalls :
          last' = [NoCall EXCEPT !.op = "order_by", !.terms = ts,
                                 !.result = OrderBy(self, ts)]
    /\ pc' = "returned"
    /\ UNCHANGED self /\ QueryIdle

CallSelectRelated ==
    /\ pc = "call"
    /\ \E cs \in RelatedCalls, o \in RelatedOptions :
          last' = [NoCall EXCEPT !.op = "select_related", !.columns = cs, !.options = o,
                                 !.result = SelectRelated(self, cs, o)]
    /\ pc' = "returned"
    /\ UNCHANGED self /\ QueryIdle

Init ==
    /\ self \in SelfQueries
    /\ pc = "call"
    /\ last = NoCall
    /\ ins = [transient |-> TRUE, unloaded |-> {}, expired |-> FALSE,
              expired_attributes |-> {},
              dict |-> [n \in GetEntityPropnames(InstanceClass) |-> n]]
    /\ cls_exclude = [declared |-> FALSE, names |-> {}]
    /\ out = NoOut

Next == CallFilterBy \/ CallExcludeBy \/ CallOrderBy \/ CallSelectRelated

Spec == Init /\ [][Next]_vars

SerialIdle == UNCHANGED <<self, last, ins, cls_exclude>>

Output(op, exclude, mapping) ==
    [op |-> op, exclude |-> exclude, keys |-> DOMAIN mapping, read |-> DOMAIN mapping,
     mapping |-> mapping]

CallLoadedPropnames ==
    /\ pc = "call"
    /\ out' = [NoOut EXCEPT !.op = "loaded", !.keys = GetEntityLoadedPropnames(ins)]
    /\ pc' = "returned"
    /\ SerialIdle

CallJson ==
    /\ pc = "call"
    /\ \E x \in CallExcludes : out' = Output("json", x, Json(ins, x))
    /\ pc' = "returned"
    /\ SerialIdle

CallEncoderDefault ==
    /\ pc = "call"
    /\ out' = Output("default", {}, EncoderDefault(ins, cls_exclude))
    /\ pc' = "returned"
    /\ SerialIdle

InitSerial ==
    /\ self = FreshQuery(InstanceClass)
    /\ pc = "call"
    /\ last = NoCall
    /\ ins \in InstanceStates
    /\ cls_exclude \in ClassExcludes
    /\ out = NoOut

NextSerial == CallLoadedPropnames \/ CallJson \/ CallEncoderDefault

SpecSerial == InitSerial /\ [][NextSerial]_vars

(* ------------------------------------------------------------------ *)
(* Properties                                                           *)
(* ------------------------------------------------------------------ *)
Range(f) == {f[i] : i \in DOMAIN f}
Count(f, x) == Cardinality({i \in DOMAIN f : f[i] = x})
SameBag(f, g) == \A x \in Range(f) \cup Range(g) : Count(f, x) = Count(g, x)
Reverse(f) == [i \in 1..Len(f) |-> f[Len(f) + 1 - i]]

LookupReturned == pc = "returned" /\ last.op \in {"filter_by", "exclude_by"}
OneLookup == LookupReturned /\ Len(last.kwargs) = 1
LookupTokens == Split(last.kwargs[1].key)
LookupValue == last.kwargs[1].value
\* what the call added to the query it was made on
AddedCriteria == SubSeq(last.result.q.criteria, Len(self.criteria) + 1,
                        Len(last.result.q.criteria))
AddedJoins == SubSeq(last.result.q.joins, Len(self.joins) + 1, Len(last.result.q.joins))

RECURSIVE OnlyRelationships(_, _)
\* every token of the path names a relationship of the entity reached so far
OnlyRelationships(e, tokens) ==
    \/ tokens = <<>>
    \/ /\ Head(tokens) \in RelationshipNames(e)
       /\ OnlyRelationships(RelationshipTarget(e, Head(tokens)), Tail(tokens))

\* C1: a lookup whose path holds only relationship tokens fails with an error;
\* no query with a join added and no predicate added is returned.
C1_RelationshipOnlyLookupFails ==
    (OneLookup /\ OnlyRelationships(JoinpointZero(self), LookupTokens))
        => last.result.err # ""

RECURSIVE TokensAfterOperator(_, _)
\* relationships, then a column, then an operator, then at least one more token
TokensAfterOperator(e, tokens) ==
    /\ tokens # <<>>
    /\ \/ /\ Head(tokens) \in RelationshipNames(e)
          /\ TokensAfterOperator(RelationshipTarget(e, Head(tokens)), Tail(tokens))
       \/ /\ Head(tokens) \in ColumnNames(e)
          /\ Len(tokens) >= 3
          /\ IsOperator(tokens[2])

\* C2: once an operator has been applied the path must end: a key
\* col__op__t1[__t2...] fails with an error, whatever the extra tokens are.
C2_TokensAfterOperatorFail ==
    (OneLookup /\ TokensAfterOperator(JoinpointZero(self), LookupTokens))
        => last.result.err # ""

\* the lookup is <column>__<operator> on the entity the call starts from
ColumnOperatorLookup ==
    /\ OneLookup
    /\ Len(LookupTokens) = 2
    /\ LookupTokens[1] \in ColumnNames(JoinpointZero(self))
    /\ IsOperator(LookupTokens[2])
LookupColumn == Descriptor(JoinpointZero(self), LookupTokens[1])
LookupFunction == UnderscoreOperators[LookupTokens[2][1]]

\* the arguments the operator is to be built from: for in a scalar is wrapped
\* and a sequence is one membership list; for range the two bounds; for every
\* other operator the value as it is, as one argument
CoercedArguments ==
    CASE LookupFunction = "in_op" ->
            << IF LookupValue.t = "list" THEN LookupValue
               ELSE PyList(LookupValue.items) >>
      [] LookupFunction = "between_op" /\ LookupValue.t = "list" ->
            [i \in 1..Len(LookupValue.items) |-> PyInt(LookupValue.items[i])]
      [] OTHER -> <<LookupValue>>

\* C3: value coercion: in and range wrap a scalar and unwrap a sequence
\* positionally (in builds one membership predicate over exactly v1..vk, range
\* builds between(col, lo, hi)); every single-scalar operator gets the value
\* as-is as exactly one argument, also when it is a sequence or None.
C3_ValueCoercion ==
    (ColumnOperatorLookup /\ LookupValue.t \in {"int", "list", "none"})
        => LET want == ApplyOperator(LookupFunction, LookupColumn, CoercedArguments)
           IN IF want.err # "" THEN last.result.err # ""
              ELSE /\ last.result.err = ""
                   /\ AddedCriteria = <<NegateIf(last.negate, want.expr)>>

\* the logical NOT of a whole predicate
LogicalNot(e) ==
    CASE e.kind = "sql" -> [e EXCEPT !.neg = ~@]
      [] e.kind = "pybool" -> PyBoolObject(e.op # "True")
      [] OTHER -> e

\* C4: exclude_by adds exactly the logical NOT of the predicate filter_by adds
\* for the same key and value, with the same joins.
C4_ExcludeIsNegatedFilter ==
    (OneLookup /\ last.op = "exclude_by")
        => LET f == FilterBy(self, last.kwargs)
           IN /\ (last.result.err = "") <=> (f.err = "")
              /\ last.result.err = "" =>
                    /\ last.result.q.joins = f.q.joins
                    /\ Len(last.result.q.criteria) = Len(f.q.criteria)
                    /\ \A i \in 1..Len(f.q.criteria) :
                          i > Len(self.criteria) =>
                              last.result.q.criteria[i] = LogicalNot(f.q.criteria[i])

\* C5: col__isnull=True builds 'column is null', col__isnull=False builds
\* 'column is not null' (their complements under exclude_by): a predicate over
\* the column, never a constant independent of it.
C5_IsNullIsColumnPredicate ==
    (ColumnOperatorLookup /\ LookupFunction = "lambda_isnull" /\ LookupValue.t = "bool")
        => /\ last.result.err = ""
           /\ Len(AddedCriteria) = 1
           /\ AddedCriteria[1].kind = "sql"
           /\ AddedCriteria[1].col = LookupColumn
           /\ AddedCriteria[1].neg = (Truthy(LookupValue) = last.negate)

RECURSIVE Unique(_)
\* the distinct elements of a sequence, in order of first occurrence
Unique(f) ==
    IF f = <<>> THEN <<>>
    ELSE LET front == Unique(SubSeq(f, 1, Len(f) - 1))
         IN IF f[Len(f)] \in Range(front) THEN front ELSE Append(front, f[Len(f)])

RECURSIVE Discovered(_, _)
\* the relationships met while walking a path from entity e, in path order
Discovered(e, tokens) ==
    IF tokens = <<>> \/ ~HasProperty(e, Head(tokens)) THEN <<>>
    ELSE IF Head(tokens) \in RelationshipNames(e)
         THEN <<Descriptor(e, Head(tokens))>>
              \o Discovered(RelationshipTarget(e, Head(tokens)), Tail(tokens))
         ELSE Discovered(e, Tail(tokens))

RECURSIVE DiscoveredByTerms(_, _)
DiscoveredByTerms(e, terms) ==
    IF terms = <<>> THEN <<>>
    ELSE LET t == Head(terms)
             path == IF t.chars # <<>> /\ t.chars[1] \in {"+", "-"}
                     THEN Tail(t.chars) ELSE t.chars
         IN (IF t.isstr THEN Discovered(e, Split(path)) ELSE <<>>)
            \o DiscoveredByTerms(e, Tail(terms))

\* C6: the joins discovered by all string terms of one order_by call are
\* applied after the ordering clause, in first-discovery order, each distinct
\* relationship exactly once per call.
C6_OrderByJoinsOncePerCall ==
    (pc = "returned" /\ last.op = "order_by" /\ last.result.err = "")
        => AddedJoins = Unique(DiscoveredByTerms(JoinpointZero(self), last.terms))

\* the per-class default exclusion set, empty when the class declares none
ClassExclusion == IF cls_exclude.declared THEN cls_exclude.names ELSE {}

\* C7 as stated: the key set is loaded_properties minus the union of the
\* per-call and the per-class exclusion sets, whichever way __json__ is called.
C7_ExcludesUnionOfBothSets ==
    (pc = "returned" /\ out.op \in {"json", "default"})
        => /\ out.keys = GetEntityLoadedPropnames(ins) \ (out.exclude \cup ClassExclusion)
           /\ out.read \subseteq GetEntityLoadedPropnames(ins)

\* C7 amended: __json__(exclude_columns) returns a mapping whose key set is
\* exactly loaded_properties minus the exclusion set it is called with (the
\* per-class set plays no part in a direct call); the encoder hook calls it
\* with the per-class set when the class declares one and with the empty set
\* otherwise; each key maps to the attribute's value and no attribute outside
\* the loaded set is read.
C7_ExcludesTheSetPassed ==
    /\ (pc = "returned" /\ out.op = "json")
          => out.keys = GetEntityLoadedPropnames(ins) \ out.exclude
    /\ (pc = "returned" /\ out.op = "default")
          => out.keys = GetEntityLoadedPropnames(ins) \ ClassExclusion
    /\ (pc = "returned" /\ out.op \in {"json", "default"})
          => /\ out.read \subseteq GetEntityLoadedPropnames(ins)
             /\ \A n \in out.keys : out.mapping[n] = ins.dict[n]

\* a direct __json__ call with a per-call set that drops a loaded name, on a
\* class whose own exclusion set names another loaded name
C7_Witness ==
    /\ pc = "returned" /\ out.op = "json"
    /\ out.exclude \cap GetEntityLoadedPropnames(ins) # {}
    /\ cls_exclude.declared
    /\ (cls_exclude.names \cap GetEntityLoadedPropnames(ins)) \ out.exclude # {}

Declared == ColumnNames(InstanceClass) \cup RelationshipNames(InstanceClass)

\* C8: loaded_properties = declared names, minus the unloaded names when the
\* instance is not transient, plus the expired names when it is expired; so a
\* transient instance gives the full declared set, a persisted non-expired one
\* gives declared minus unloaded; the instance's state is left as it was.
C8_LoadedProperties ==
    [][(pc = "call" /\ out'.op = "loaded")
        => /\ out'.keys = (IF ins.transient THEN Declared ELSE Declared \ ins.unloaded)
                          \cup (IF ins.expired THEN ins.expired_attributes ELSE {})
           /\ ins.transient => out'.keys = Declared
           /\ (~ins.transient /\ ~ins.expired) => out'.keys = Declared \ ins.unloaded
           /\ ins' = ins]_vars

\* the classifier ran on a transient instance that has unloaded keys
C8_Witness ==
    /\ pc = "returned" /\ out.op = "loaded"
    /\ ins.transient /\ ins.unloaded # {} /\ ins.expired
    /\ out.keys = Declared

RECURSIVE Chained(_, _, _)
\* one single-entry call per entry, each made on the query the one before returned
Chained(q, negate, kwargs) ==
    IF kwargs = <<>> THEN Returned(q)
    ELSE LET r == FilterOrExclude(q, negate, <<Head(kwargs)>>)
         IN IF r.err # "" THEN r ELSE Chained(r.q, negate, Tail(kwargs))

\* the loop's state after the first n entries of the call
AfterEntries(n) == FilterEntries(WalkStart(self), SubSeq(last.kwargs, 1, n), last.negate)

\* both calls fail, or both return the same predicates and the same joins
SameLookups(r1, r2) ==
    /\ (r1.err = "") <=> (r2.err = "")
    /\ r1.err = "" => /\ Range(r1.q.criteria) = Range(r2.q.criteria)
                      /\ SameBag(r1.q.joins, r2.q.joins)

\* a call of several entries equals the chain of single-entry calls, and after
\* each entry the column cell is empty and the join target is the base entity
ChainEquivalence ==
    (LookupReturned /\ Len(last.kwargs) >= 2)
        => /\ last.result = Chained(self, last.negate, last.kwargs)
           /\ \A n \in 1..Len(last.kwargs) :
                 AfterEntries(n).err = ""
                    => /\ AfterEntries(n).column = NoColumn
                       /\ JoinpointZero(AfterEntries(n).q) = self.base

\* the other entry order gives the same predicates and joins
OrderIndependence ==
    SameLookups(last.result, FilterOrExclude(self, last.negate, Reverse(last.kwargs)))

\* C9 as stated: chaining equivalence in either entry order, every entry's
\* first token being resolved against the query's base entity.
C9_EveryEntryStartsAtBase ==
    (LookupReturned /\ Len(last.kwargs) >= 2)
        => /\ ChainEquivalence
           /\ JoinpointZero(WalkStart(self).q) = self.base
           /\ OrderIndependence

\* C9 amended: a call of several entries yields the same query as chaining
\* single-entry calls in the same entry order; after each entry the column
\* cell is empty and the join target is reset to the base entity, so every
\* entry after the first is resolved against the base entity, and the first
\* against the join point of the query the call is made on; when that join
\* point is the base entity the other entry order gives the same predicates
\* and joins.
C9_ChainingEquivalence ==
    (LookupReturned /\ Len(last.kwargs) >= 2)
        => /\ ChainEquivalence
           /\ JoinpointZero(self) = self.base => OrderIndependence

\* a two-entry call returned; its first entry joined a relationship
C9_Witness ==
    /\ LookupReturned /\ Len(last.kwargs) = 2 /\ last.result.err = ""
    /\ Len(AfterEntries(1).q.joins) > Len(self.joins)
    /\ Len(last.result.q.criteria) = Len(self.criteria) + 2

SelectReturned == pc = "returned" /\ last.op = "select_related"

\* C10: select_related fails on an unrecognized keyword or a depth other than
\* None and 1; otherwise it requests full-depth loading of all rewritten paths
\* iff depth is None or a rewritten path holds '.', shallow loading iff depth
\* is 1 and no path is multi-level, and adds no join and no predicate.
C10_SelectRelated ==
    SelectReturned
        => LET bad == \/ last.options.extra # <<>>
                      \/ last.options.depth \notin {"absent", "None", "1"}
               none == last.options.depth \in {"absent", "None"}
               added == last.result.q.options[Len(last.result.q.options)]
               dotted == \E i \in 1..Len(added.columns) : HasDot(added.columns[i])
           IN /\ bad <=> last.result.err # ""
              /\ ~bad =>
                    /\ last.result.q = [self EXCEPT !.options = Append(@, added)]
                    /\ Len(added.columns) = Len(last.columns)
                    /\ \A i \in 1..Len(last.columns) :
                          /\ added.columns[i] = ReplaceDunder(last.columns[i])
                          /\ \A j \in 1..(Len(added.columns[i]) - 1) :
                                ~(added.columns[i][j] = "_" /\ added.columns[i][j + 1] = "_")
                    /\ (added.func = "joinedload_all") <=> (none \/ dotted)
                    /\ (added.func = "joinedload") <=> (~none /\ ~dotted)

\* depth=1 with a path written with '__': full-depth loading is requested
C10_Witness ==
    /\ SelectReturned /\ last.result.err = ""
    /\ last.options.depth = "1"
    /\ \E i \in 1..Len(last.columns) : ~HasDot(last.columns[i])
    /\ last.result.q.options[Len(last.result.q.options)].func = "joinedload_all"

====
